---- MODULE Spec2Model ----
(***************************************************************************)
(* Model of the TWSE chip-data service: the retrying fetch client          *)
(* (TWSEService._fetch_json), the two row parsers with the top-10 ranking  *)
(* (parse_chip_summary, parse_stock_chip_data) and the router handlers     *)
(* that run the fetch-then-parse pipeline and map failures to HTTP codes.  *)
(***************************************************************************)
EXTENDS Integers, Sequences, FiniteSets, TLC

VARIABLES
    endpoint,        \* router handler running the pipeline, "direct" for a bare _fetch_json call
    max_retries,     \* _fetch_json parameter
    base_delay,      \* _fetch_json parameter
    max_delay,       \* _fetch_json parameter
    pc,              \* position of the call
    attempt,         \* loop variable of "for attempt in range(max_retries)"
    last_exception,  \* local of _fetch_json
    fetched,         \* what _fetch_json returned or raised
    responses,       \* history: the upstream response of every attempt issued and answered
    gets,            \* history: number of client.get calls issued
    sleeps,          \* history: the delays passed to asyncio.sleep, in order
    cancelAt,        \* history: gets and sleeps at the moment the task was cancelled
    http,            \* what the router handler answered
    code,            \* path parameter of /stock/{code}
    kind,            \* which parser runs: "summary" or "stock"
    ppc,             \* position of the parser
    raw_data,        \* the row table data["data"]
    idx,             \* number of rows the parser loop has consumed
    investors,       \* result["investors"]
    total_diff,      \* result["total_diff"]
    stocks,          \* the list "stocks"
    tops,            \* the four top_* lists, each a list of references into stocks
    src,             \* history: for each record appended, the number of the row it was built from
    parseExc         \* class of the exception that left the parser

fetchVars == <<endpoint, max_retries, base_delay, max_delay, pc, attempt, last_exception,
               fetched, responses, gets, sleeps, cancelAt>>
parseVars == <<kind, ppc, raw_data, idx, investors, total_diff, stocks, tops, src, parseExc>>
vars == <<fetchVars, parseVars, http, code>>

(***************************************************************************)
(* Bounds of the model                                                     *)
(***************************************************************************)
MaxRetriesBound == 4

(***************************************************************************)
(* Program constants                                                       *)
(***************************************************************************)
DEFAULT_MAX_RETRIES == 3
DEFAULT_BASE_DELAY == 1
DEFAULT_MAX_DELAY == 10

\* status_code: Optional[int] = None
NoStatus == 0

Min(a, b) == IF a <= b THEN a ELSE b

(***************************************************************************)
(* Text: a Python str is a sequence of characters.  The upstream no-data   *)
(* text is written with one character per word.                            *)
(***************************************************************************)
RECURSIVE Contains(_, _)
\* Python "needle in text" on strings: needle is a contiguous part of text
Contains(needle, text) ==
    IF Len(needle) > Len(text) THEN FALSE
    ELSE IF SubSeq(text, 1, Len(needle)) = needle THEN TRUE
    ELSE IF text = <<>> THEN FALSE
    ELSE Contains(needle, Tail(text))

\* "沒有符合條件的資料"
NoDataText == <<"no", "matching", "data">>
\* "很抱歉，沒有符合條件的資料!", the stat the exchange sends for a date without data
StatNoData == <<"sorry", "no", "matching", "data", "!">>
StatOK == <<"OK">>
StatOther == <<"query", "date", "out", "of", "range">>

(***************************************************************************)
(* Python str operations used by the parsers                               *)
(***************************************************************************)
Digits == {"0", "1", "2", "3", "4", "5", "6", "7", "8", "9"}

DigitVal(c) ==
    CASE c = "0" -> 0 [] c = "1" -> 1 [] c = "2" -> 2 [] c = "3" -> 3 [] c = "4" -> 4
      [] c = "5" -> 5 [] c = "6" -> 6 [] c = "7" -> 7 [] c = "8" -> 8 [] c = "9" -> 9

IsSpace(c) == c \in {" ", "\t", "\n"}

RECURSIVE LStrip(_)
LStrip(s) == IF s # <<>> /\ IsSpace(Head(s)) THEN LStrip(Tail(s)) ELSE s

RECURSIVE RStrip(_)
RStrip(s) == IF s # <<>> /\ IsSpace(s[Len(s)]) THEN RStrip(SubSeq(s, 1, Len(s) - 1)) ELSE s

\* str.strip()
Strip(s) == RStrip(LStrip(s))

RECURSIVE RemoveCommas(_)
\* str.replace(",", "")
RemoveCommas(s) ==
    IF s = <<>> THEN <<>>
    ELSE IF Head(s) = "," THEN RemoveCommas(Tail(s))
    ELSE <<Head(s)>> \o RemoveCommas(Tail(s))

RECURSIVE DigitRun(_, _, _)
\* the digits of an int literal, single underscores allowed between two digits;
\* acc is the value read so far, prev the character just read
DigitRun(s, acc, prev) ==
    IF s = <<>> THEN [ok |-> prev \in Digits, v |-> acc]
    ELSE IF Head(s) \in Digits THEN DigitRun(Tail(s), 10 * acc + DigitVal(Head(s)), Head(s))
    ELSE IF Head(s) = "_" /\ prev \in Digits THEN DigitRun(Tail(s), acc, "_")
    ELSE [ok |-> FALSE, v |-> 0]

\* int(s) on a str: surrounding whitespace dropped, an optional sign, then the digits;
\* ok is FALSE where Python raises ValueError
ParseInt(s) ==
    LET t == Strip(s)
        neg == t # <<>> /\ Head(t) = "-"
        body == IF t # <<>> /\ Head(t) \in {"+", "-"} THEN Tail(t) ELSE t
        d == DigitRun(body, 0, "")
    IN  [ok |-> d.ok, v |-> IF neg THEN 0 - d.v ELSE d.v]

(***************************************************************************)
(* JSON cells of the row table                                             *)
(***************************************************************************)
Str(s) == [t |-> "str", s |-> s, v |-> 0]
Num(v) == [t |-> "num", s |-> <<>>, v |-> v]
Null == [t |-> "null", s |-> <<>>, v |-> 0]

\* row[c], c counted from 0 as in the source
Cell(row, c) == row[c + 1]

\* truth value of a cell in "if row[c]"
Truthy(cell) ==
    CASE cell.t = "str" -> cell.s # <<>>
      [] cell.t = "num" -> cell.v # 0
      [] OTHER -> FALSE

\* a decoding that turns an undecodable cell into 0 instead of raising
CellIntOrZero(cell) ==
    IF cell.t # "str" THEN [exc |-> "None", v |-> 0]
    ELSE LET r == ParseInt(RemoveCommas(cell.s))
         IN  [exc |-> "None", v |-> IF r.ok THEN r.v ELSE 0]

\* int(cell.replace(",", "")): the value, or the class of the exception raised
CellInt(cell) ==
    IF cell.t # "str" THEN [exc |-> "AttributeError", v |-> 0]
    ELSE LET r == ParseInt(RemoveCommas(cell.s))
         IN  IF r.ok THEN [exc |-> "None", v |-> r.v] ELSE [exc |-> "ValueError", v |-> 0]

\* int(cell.replace(",", "")) if cell else 0
OptionalCellInt(cell) == IF Truthy(cell) THEN CellInt(cell) ELSE [exc |-> "None", v |-> 0]

\* cell.strip(): the text, or the class of the exception raised
CellStrip(cell) ==
    IF cell.t # "str" THEN [exc |-> "AttributeError", s |-> <<>>]
    ELSE [exc |-> "None", s |-> Strip(cell.s)]

\* the first exception raised by a sequence of evaluations, "None" when none raises
FirstException(evals) ==
    IF \E i \in 1..Len(evals) : evals[i].exc # "None"
      THEN evals[CHOOSE i \in 1..Len(evals) :
                   evals[i].exc # "None" /\ \A j \in 1..(i - 1) : evals[j].exc = "None"].exc
      ELSE "None"

(***************************************************************************)
(* Exceptions                                                              *)
(***************************************************************************)
\* a cancellation that an "except Exception" clause would catch
BaseOfCancelCaught(cls) ==
    IF cls = "CancelledError" THEN "Exception"
    ELSE CASE cls = "TimeoutException" -> "TransportError"
           [] cls = "ConnectError" -> "TransportError"
           [] cls = "TransportError" -> "RequestError"
           [] cls = "RequestError" -> "HTTPError"
           [] cls = "HTTPStatusError" -> "HTTPError"
           [] cls = "HTTPError" -> "Exception"
           [] cls = "JSONDecodeError" -> "ValueError"
           [] cls = "ValueError" -> "Exception"
           [] cls = "TWSEAPIError" -> "Exception"
           [] cls = "AttributeError" -> "Exception"
           [] cls = "TypeError" -> "Exception"
           [] cls = "HTTPException" -> "Exception"
           [] cls = "Exception" -> "BaseException"
           [] OTHER -> "object"

\* the class each exception class derives from
BaseOf(cls) ==
    CASE cls = "TimeoutException" -> "TransportError"
      [] cls = "ConnectError" -> "TransportError"
      [] cls = "TransportError" -> "RequestError"
      [] cls = "RequestError" -> "HTTPError"
      [] cls = "HTTPStatusError" -> "HTTPError"
      [] cls = "HTTPError" -> "Exception"
      [] cls = "JSONDecodeError" -> "ValueError"
      [] cls = "ValueError" -> "Exception"
      [] cls = "TWSEAPIError" -> "Exception"
      [] cls = "AttributeError" -> "Exception"
      [] cls = "TypeError" -> "Exception"
      [] cls = "HTTPException" -> "Exception"
      [] cls = "Exception" -> "BaseException"
      [] cls = "CancelledError" -> "BaseException"
      [] OTHER -> "object"

\* the class of an "except" clause matches the raised class or one of its bases
IsInstance(cls, target) ==
    LET b1 == BaseOf(cls)
        b2 == BaseOf(b1)
        b3 == BaseOf(b2)
        b4 == BaseOf(b3)
        b5 == BaseOf(b4)
    IN  target \in {cls, b1, b2, b3, b4, b5}

NoException == [cls |-> "None", message |-> <<>>, status_code |-> NoStatus]

\* TWSEAPIError.__init__
TWSEAPIError(message, status_code) ==
    [cls |-> "TWSEAPIError", message |-> message, status_code |-> status_code]

\* an exception of a library class, str(e) being its message
Raised(cls, message, status_code) ==
    [cls |-> cls, message |-> message, status_code |-> status_code]

(***************************************************************************)
(* One attempt of _fetch_json: the body of the try block                   *)
(***************************************************************************)
\* What the upstream can answer to one GET
Upstream ==
    [transport : {"timeout", "connect_error"}, status : {0}, body : {"none"},
     stat : {<<>>}, doc : {0}]
    \cup [transport : {"ok"}, status : {404, 500}, body : {"none"}, stat : {<<>>}, doc : {0}]
    \cup [transport : {"ok"}, status : {200}, body : {"invalid_json"}, stat : {<<>>}, doc : {0}]
    \cup [transport : {"ok"}, status : {200}, body : {"object_without_stat"},
          stat : {<<>>}, doc : {1, 2}]
    \cup [transport : {"ok"}, status : {200}, body : {"object"},
          stat : {StatOK}, doc : {1, 2}]
    \cup [transport : {"ok"}, status : {200}, body : {"object"},
          stat : {StatNoData, StatOther}, doc : {0}]

\* the try block: client.get, raise_for_status, response.json, the stat check
TryAttempt(r) ==
    IF r.transport = "timeout"
      THEN [raised |-> TRUE, exc |-> Raised("TimeoutException", <<"timed", "out">>, NoStatus), data |-> 0]
    ELSE IF r.transport = "connect_error"
      THEN [raised |-> TRUE, exc |-> Raised("ConnectError", <<"connection", "refused">>, NoStatus), data |-> 0]
    ELSE IF r.status \notin 200..299
      THEN [raised |-> TRUE, exc |-> Raised("HTTPStatusError", <<"status">>, r.status), data |-> 0]
    ELSE IF r.body = "invalid_json"
      THEN [raised |-> TRUE, exc |-> Raised("JSONDecodeError", <<"expecting", "value">>, NoStatus), data |-> 0]
    ELSE IF r.body = "object" /\ r.stat # StatOK
      THEN [raised |-> TRUE,
            exc |-> TWSEAPIError(<<"API returned error status: ">> \o r.stat, NoStatus),
            data |-> 0]
    ELSE [raised |-> FALSE, exc |-> NoException, data |-> r.doc]

\* the except clauses treat a TWSEAPIError as one more failure to retry
ExceptClausesRetryValidation(e) ==
    IF IsInstance(e.cls, "TimeoutException")
      THEN [do |-> "retry", exc |-> TWSEAPIError(<<"Request timeout: ", "url">>, NoStatus)]
    ELSE IF IsInstance(e.cls, "HTTPStatusError")
      THEN [do |-> "retry",
            exc |-> TWSEAPIError(<<"HTTP error: ", ToString(e.status_code)>>, e.status_code)]
    ELSE IF IsInstance(e.cls, "RequestError")
      THEN [do |-> "retry", exc |-> TWSEAPIError(<<"Request error: ">> \o e.message, NoStatus)]
    ELSE IF IsInstance(e.cls, "Exception")
      THEN IF IsInstance(e.cls, "TWSEAPIError")
             THEN [do |-> "retry", exc |-> e]
             ELSE [do |-> "retry", exc |-> TWSEAPIError(<<"Unknown error: ">> \o e.message, NoStatus)]
    ELSE [do |-> "raise", exc |-> e]

\* the except clauses of _fetch_json, first match wins
ExceptClauses(e) ==
    IF IsInstance(e.cls, "TimeoutException")
      THEN [do |-> "retry", exc |-> TWSEAPIError(<<"Request timeout: ", "url">>, NoStatus)]
    ELSE IF IsInstance(e.cls, "HTTPStatusError")
      THEN [do |-> "retry",
            exc |-> TWSEAPIError(<<"HTTP error: ", ToString(e.status_code)>>, e.status_code)]
    ELSE IF IsInstance(e.cls, "RequestError")
      THEN [do |-> "retry", exc |-> TWSEAPIError(<<"Request error: ">> \o e.message, NoStatus)]
    ELSE IF IsInstance(e.cls, "Exception")
      THEN IF IsInstance(e.cls, "TWSEAPIError")
             THEN [do |-> "raise", exc |-> e]
             ELSE [do |-> "retry", exc |-> TWSEAPIError(<<"Unknown error: ">> \o e.message, NoStatus)]
    ELSE [do |-> "raise", exc |-> e]

\* a handler that keeps the first failure instead of the latest
KeepFirstException(old, new) == IF old = NoException THEN new ELSE old

\* "last_exception = TWSEAPIError(...)" in a handler
AssignLastException(old, new) == new

\* a backoff test that also sleeps after the last attempt
SleepAfterEveryFailure(i, n) == i < n

\* "if attempt < max_retries - 1"
ShouldSleep(i, n) == i < n - 1

\* a backoff without the cap
DelayUncapped(i, base, cap) == base * (2 ^ i)

\* "delay = min(base_delay * (2 ** attempt), max_delay)"
Delay(i, base, cap) == Min(base * (2 ^ i), cap)

\* "raise last_exception or TWSEAPIError("Request failed")"
FinalException(last) ==
    IF last = NoException THEN TWSEAPIError(<<"Request failed">>, NoStatus) ELSE last

(***************************************************************************)
(* parse_chip_summary and parse_stock_chip_data                            *)
(***************************************************************************)
TOP_N == 10
MIN_SUMMARY_CELLS == 4
MIN_STOCK_CELLS == 17

\* "合計"
AggregateMarker == <<"he", "ji">>

NoRecord == [name |-> <<>>]

\* the except clause of a parser catches the exception class e
Catches(clause, e) == \E c \in clause : IsInstance(e, c)

\* one iteration of the loop of parse_chip_summary
SummaryRow(row) ==
    IF ~(Len(row) >= MIN_SUMMARY_CELLS) THEN [do |-> "skip", exc |-> "None", rec |-> NoRecord]
    ELSE LET name == CellStrip(Cell(row, 0))
             buy == CellInt(Cell(row, 1))
             sell == CellInt(Cell(row, 2))
             diff == CellInt(Cell(row, 3))
             e == FirstException(<<buy, sell, diff>>)
         IN  IF name.exc # "None" THEN [do |-> "raise", exc |-> name.exc, rec |-> NoRecord]
             ELSE IF e # "None" /\ Catches({"ValueError", "AttributeError"}, e)
               THEN [do |-> "skip", exc |-> "None", rec |-> NoRecord]
             ELSE IF e # "None" THEN [do |-> "raise", exc |-> e, rec |-> NoRecord]
             ELSE [do |-> "append", exc |-> "None",
                   rec |-> [name |-> name.s, buy |-> buy.v, sell |-> sell.v, diff |-> diff.v]]

\* "int(row[11]...) + int(row[14]...)"
DealerDiff(self, hedge) == self + hedge

\* a total_diff that is always recomputed
TotalDiffRecomputed(row, foreign_diff, trust_diff, dealer_diff) ==
    [exc |-> "None", v |-> foreign_diff + trust_diff + dealer_diff]

\* "int(row[17]...) if len(row) > 17 else foreign_diff + trust_diff + dealer_diff"
TotalDiff(row, foreign_diff, trust_diff, dealer_diff) ==
    IF Len(row) > 17 THEN CellInt(Cell(row, 17))
    ELSE [exc |-> "None", v |-> foreign_diff + trust_diff + dealer_diff]

\* one iteration of the loop of parse_stock_chip_data
StockRow(row) ==
    IF ~(Len(row) >= MIN_STOCK_CELLS) THEN [do |-> "skip", exc |-> "None", rec |-> NoRecord]
    ELSE LET c == CellStrip(Cell(row, 0))
             name == CellStrip(Cell(row, 1))
             foreign_diff == CellInt(Cell(row, 4))
             trust_diff == CellInt(Cell(row, 10))
             self == CellInt(Cell(row, 11))
             hedge == CellInt(Cell(row, 14))
             dealer_diff == DealerDiff(self.v, hedge.v)
             total == TotalDiff(row, foreign_diff.v, trust_diff.v, dealer_diff)
             foreign_buy == OptionalCellInt(Cell(row, 2))
             foreign_sell == OptionalCellInt(Cell(row, 3))
             trust_buy == OptionalCellInt(Cell(row, 8))
             trust_sell == OptionalCellInt(Cell(row, 9))
             e == FirstException(<<[exc |-> c.exc], [exc |-> name.exc], foreign_diff, trust_diff,
                                   self, hedge, total, foreign_buy, foreign_sell, trust_buy,
                                   trust_sell>>)
         IN  IF e # "None" /\ Catches({"ValueError", "IndexError", "AttributeError"}, e)
               THEN [do |-> "skip", exc |-> "None", rec |-> NoRecord]
             ELSE IF e # "None" THEN [do |-> "raise", exc |-> e, rec |-> NoRecord]
             ELSE [do |-> "append", exc |-> "None",
                   rec |-> [code |-> c.s, name |-> name.s,
                            foreign_buy |-> foreign_buy.v, foreign_sell |-> foreign_sell.v,
                            foreign_diff |-> foreign_diff.v,
                            trust_buy |-> trust_buy.v, trust_sell |-> trust_sell.v,
                            trust_diff |-> trust_diff.v,
                            dealer_diff |-> dealer_diff, total_diff |-> total.v]]

Reverse(s) == [i \in 1..Len(s) |-> s[Len(s) + 1 - i]]

RECURSIVE InsertStable(_, _, _)
\* x is put behind every element whose key is not greater than its own
InsertStable(sorted, x, key) ==
    IF sorted = <<>> THEN <<x>>
    ELSE IF key[Head(sorted)] <= key[x] THEN <<Head(sorted)>> \o InsertStable(Tail(sorted), x, key)
    ELSE <<x>> \o sorted

RECURSIVE SortAscending(_, _)
\* the stable ascending sort of list.sort
SortAscending(s, key) ==
    IF s = <<>> THEN <<>>
    ELSE InsertStable(SortAscending(SubSeq(s, 1, Len(s) - 1), key), s[Len(s)], key)

\* a descending order obtained by reversing the ascending result
SortedThenReversed(s, key, reverse) ==
    IF reverse THEN Reverse(SortAscending(s, key)) ELSE SortAscending(s, key)

\* sorted(s, key=..., reverse=...): with reverse the list is reversed before and after the
\* stable ascending sort
Sorted(s, key, reverse) ==
    IF reverse THEN Reverse(SortAscending(Reverse(s), key)) ELSE SortAscending(s, key)

\* s[:10]
FirstTen(s) == SubSeq(s, 1, Min(TOP_N, Len(s)))

NoTops == [top_foreign_buy |-> <<>>, top_foreign_sell |-> <<>>,
           top_trust_buy |-> <<>>, top_trust_sell |-> <<>>]

\* the four rankings of a list of stock records, as lists of positions in that list
Rankings(ss) ==
    LET refs == [i \in 1..Len(ss) |-> i]
        foreign == [i \in 1..Len(ss) |-> ss[i].foreign_diff]
        trust == [i \in 1..Len(ss) |-> ss[i].trust_diff]
    IN  [top_foreign_buy |-> FirstTen(Sorted(refs, foreign, TRUE)),
         top_foreign_sell |-> FirstTen(Sorted(refs, foreign, FALSE)),
         top_trust_buy |-> FirstTen(Sorted(refs, trust, TRUE)),
         top_trust_sell |-> FirstTen(Sorted(refs, trust, FALSE))]

\* the state of a parser that has not been called
ParserIdle ==
    /\ ppc = "idle"
    /\ raw_data = <<>>
    /\ idx = 0
    /\ investors = <<>>
    /\ total_diff = 0
    /\ stocks = <<>>
    /\ tops = NoTops
    /\ src = <<>>
    /\ parseExc = "None"

other == <<fetchVars, http, code, kind, raw_data>>

\* parse_chip_summary: one row of "for row in raw_data"
SummaryStep ==
    /\ ppc = "loop" /\ kind = "summary" /\ idx < Len(raw_data)
    /\ LET o == SummaryRow(raw_data[idx + 1])
       IN  CASE o.do = "raise" ->
                  /\ ppc' = "raised"
                  /\ parseExc' = o.exc
                  /\ UNCHANGED <<idx, investors, total_diff, src>>
             [] o.do = "skip" ->
                  /\ idx' = idx + 1
                  /\ UNCHANGED <<ppc, parseExc, investors, total_diff, src>>
             [] o.do = "append" ->
                  /\ idx' = idx + 1
                  /\ investors' = Append(investors, o.rec)
                  /\ src' = Append(src, idx + 1)
                  /\ total_diff' = IF Contains(AggregateMarker, o.rec.name)
                                     THEN o.rec.diff ELSE total_diff
                  /\ UNCHANGED <<ppc, parseExc>>
    /\ UNCHANGED <<other, stocks, tops>>

\* parse_chip_summary: "return result"
SummaryReturn ==
    /\ ppc = "loop" /\ kind = "summary" /\ idx = Len(raw_data)
    /\ ppc' = "done"
    /\ UNCHANGED <<other, idx, investors, total_diff, stocks, tops, src, parseExc>>

\* parse_stock_chip_data: one row of "for row in raw_data"
StockStep ==
    /\ ppc = "loop" /\ kind = "stock" /\ idx < Len(raw_data)
    /\ LET o == StockRow(raw_data[idx + 1])
       IN  CASE o.do = "raise" ->
                  /\ ppc' = "raised"
                  /\ parseExc' = o.exc
                  /\ UNCHANGED <<idx, stocks, src>>
             [] o.do = "skip" ->
                  /\ idx' = idx + 1
                  /\ UNCHANGED <<ppc, parseExc, stocks, src>>
             [] o.do = "append" ->
                  /\ idx' = idx + 1
                  /\ stocks' = Append(stocks, o.rec)
                  /\ src' = Append(src, idx + 1)
                  /\ UNCHANGED <<ppc, parseExc>>
    /\ UNCHANGED <<other, investors, total_diff, tops>>

\* parse_stock_chip_data: the four sorts and "return result"
StockReturn ==
    /\ ppc = "loop" /\ kind = "stock" /\ idx = Len(raw_data)
    /\ tops' = Rankings(stocks)
    /\ ppc' = "done"
    /\ UNCHANGED <<other, idx, investors, total_diff, stocks, src, parseExc>>

(***************************************************************************)
(* _fetch_json as a process                                                *)
(***************************************************************************)
NoFetch == [ok |-> FALSE, data |-> 0, exc |-> NoException]
NoCancel == [gets |-> -1, sleeps |-> -1, last |-> NoException]
NoHttp == [status |-> 0, detail |-> <<>>]

FetchParams ==
    {[base |-> DEFAULT_BASE_DELAY, cap |-> DEFAULT_MAX_DELAY], [base |-> 2, cap |-> 3]}

\* the state of a call that has not started
FetchIdle ==
    /\ pc = "idle"
    /\ attempt = 0
    /\ last_exception = NoException
    /\ fetched = NoFetch
    /\ responses = <<>>
    /\ gets = 0
    /\ sleeps = <<>>
    /\ cancelAt = NoCancel
    /\ http = NoHttp

\* a bare call of _fetch_json with parameters of the caller's choice
InitFetch ==
    /\ endpoint = "direct"
    /\ code = <<>>
    /\ max_retries \in 0..MaxRetriesBound
    /\ \E p \in FetchParams : base_delay = p.base /\ max_delay = p.cap
    /\ FetchIdle
    /\ ParserIdle
    /\ kind = "none"

params == <<endpoint, max_retries, base_delay, max_delay>>

\* the call enters the loop: the first client.get, or no iteration at all
Call ==
    /\ pc = "idle"
    /\ IF max_retries > 0
         THEN /\ pc' = "awaiting"
              /\ gets' = gets + 1
              /\ fetched' = fetched
         ELSE /\ pc' = "raised"
              /\ gets' = gets
              /\ fetched' = [ok |-> FALSE, data |-> 0, exc |-> FinalException(last_exception)]
    /\ UNCHANGED <<params, attempt, last_exception, responses, sleeps, cancelAt, http, code, parseVars>>

\* the awaited GET completes: the rest of the try block, the except clauses and the backoff test
Respond ==
    /\ pc = "awaiting"
    /\ \E r \in Upstream :
         LET t == TryAttempt(r)
             h == ExceptClauses(t.exc)
             last == AssignLastException(last_exception, h.exc)
         IN  /\ responses' = Append(responses, r)
             /\ IF ~t.raised
                  THEN /\ pc' = "returned"
                       /\ fetched' = [ok |-> TRUE, data |-> t.data, exc |-> NoException]
                       /\ UNCHANGED <<last_exception, sleeps, attempt>>
                ELSE IF h.do = "raise"
                  THEN /\ pc' = "raised"
                       /\ fetched' = [ok |-> FALSE, data |-> 0, exc |-> h.exc]
                       /\ UNCHANGED <<last_exception, sleeps, attempt>>
                ELSE IF ShouldSleep(attempt, max_retries)
                  THEN /\ pc' = "sleeping"
                       /\ last_exception' = last
                       /\ sleeps' = Append(sleeps, Delay(attempt, base_delay, max_delay))
                       /\ UNCHANGED <<fetched, attempt>>
                ELSE IF attempt + 1 < max_retries
                  THEN /\ pc' = "awaiting"
                       /\ last_exception' = last
                       /\ attempt' = attempt + 1
                       /\ UNCHANGED <<fetched, sleeps>>
                ELSE /\ pc' = "raised"
                     /\ last_exception' = last
                     /\ fetched' = [ok |-> FALSE, data |-> 0, exc |-> FinalException(last)]
                     /\ UNCHANGED <<sleeps, attempt>>
    /\ gets' = IF pc' = "awaiting" THEN gets + 1 ELSE gets
    /\ UNCHANGED <<params, cancelAt, http, code, parseVars>>

\* asyncio.sleep returns: the next iteration, or the end of the loop
Wake ==
    /\ pc = "sleeping"
    /\ IF attempt + 1 < max_retries
         THEN /\ pc' = "awaiting"
              /\ attempt' = attempt + 1
              /\ gets' = gets + 1
              /\ fetched' = fetched
         ELSE /\ pc' = "raised"
              /\ fetched' = [ok |-> FALSE, data |-> 0, exc |-> FinalException(last_exception)]
              /\ UNCHANGED <<attempt, gets>>
    /\ UNCHANGED <<params, last_exception, responses, sleeps, cancelAt, http, code, parseVars>>

Cancelled == Raised("CancelledError", <<>>, NoStatus)

\* the task is cancelled while awaiting the GET: CancelledError is raised inside the try block
CancelAwait ==
    /\ pc = "awaiting"
    /\ cancelAt' = [gets |-> gets, sleeps |-> Len(sleeps), last |-> last_exception]
    /\ LET h == ExceptClauses(Cancelled)
           last == AssignLastException(last_exception, h.exc)
       IN  IF h.do = "raise"
             THEN /\ pc' = "cancelled"
                  /\ UNCHANGED <<last_exception, sleeps, attempt, fetched, gets>>
           ELSE IF ShouldSleep(attempt, max_retries)
             THEN /\ pc' = "sleeping"
                  /\ last_exception' = last
                  /\ sleeps' = Append(sleeps, Delay(attempt, base_delay, max_delay))
                  /\ UNCHANGED <<fetched, attempt, gets>>
           ELSE IF attempt + 1 < max_retries
             THEN /\ pc' = "awaiting"
                  /\ last_exception' = last
                  /\ attempt' = attempt + 1
                  /\ gets' = gets + 1
                  /\ UNCHANGED <<fetched, sleeps>>
           ELSE /\ pc' = "raised"
                /\ last_exception' = last
                /\ fetched' = [ok |-> FALSE, data |-> 0, exc |-> FinalException(last)]
                /\ UNCHANGED <<sleeps, attempt, gets>>
    /\ UNCHANGED <<params, responses, http, code, parseVars>>

\* the task is cancelled during asyncio.sleep: CancelledError is raised outside any try block
CancelSleep ==
    /\ pc = "sleeping"
    /\ cancelAt' = [gets |-> gets, sleeps |-> Len(sleeps), last |-> last_exception]
    /\ pc' = "cancelled"
    /\ UNCHANGED <<params, attempt, last_exception, fetched, responses, gets, sleeps, http, code, parseVars>>

NextFetch == Call \/ Respond \/ Wake \/ CancelAwait \/ CancelSleep

SpecFetch == InitFetch /\ [][NextFetch]_vars

(***************************************************************************)
(* The parsers on bounded row tables                                       *)
(***************************************************************************)
MaxRows == 3
MaxRankRows == 11

\* the row with cell c replaced
With(row, c, cell) == [row EXCEPT ![c + 1] = cell]

Zero == Str(<<"0">>)

GoodSummaryRow ==
    <<Str(<<" ", "A", " ">>), Str(<<"1", ",", "0", "0", "0">>), Str(<<"2", ",", "0", "0", "0">>),
      Str(<<"-", "1", ",", "0", "0", "0">>)>>

TotalSummaryRow ==
    <<Str(<<"B", "he", "ji">>), Str(<<" ", "7">>), Str(<<"+", "2">>), Str(<<"5">>)>>

SummaryRows ==
    { GoodSummaryRow,
      TotalSummaryRow,
      SubSeq(GoodSummaryRow, 1, 3),
      Append(GoodSummaryRow, Str(<<"x">>)),
      With(GoodSummaryRow, 1, Str(<<"x">>)),
      With(GoodSummaryRow, 2, Str(<<>>)),
      With(TotalSummaryRow, 3, Str(<<",">>)),
      With(GoodSummaryRow, 3, Str(<<"1", "_", "0">>)),
      With(GoodSummaryRow, 2, Num(3)),
      With(TotalSummaryRow, 3, Null),
      With(GoodSummaryRow, 0, Num(7)),
      With(GoodSummaryRow, 0, Null) }

\* a well-formed T86 row of n cells
StockCells(c, n, foreign_diff, trust_diff) ==
    [i \in 1..n |->
        CASE i = 1 -> Str(c)
          [] i = 2 -> Str(<<"T", " ">>)
          [] i = 3 -> Str(<<"1", ",", "0", "0", "0">>)
          [] i = 4 -> Str(<<"4">>)
          [] i = 5 -> Str(foreign_diff)
          [] i = 9 -> Str(<<"6">>)
          [] i = 10 -> Str(<<"8">>)
          [] i = 11 -> Str(trust_diff)
          [] i = 12 -> Str(<<"3">>)
          [] i = 15 -> Str(<<"-", "1">>)
          [] i = 18 -> Str(<<"9", "9">>)
          [] OTHER -> Zero]

Code2330 == <<"2", "3", "3", "0">>
Code2317 == <<"2", "3", "1", "7">>

GoodStockRow == StockCells(Code2330, 17, <<"5">>, <<"-", "2">>)
TotalStockRow == StockCells(Code2317, 18, <<"-", "7">>, <<"1">>)

StockRows ==
    { GoodStockRow,
      TotalStockRow,
      SubSeq(GoodStockRow, 1, 16),
      With(GoodStockRow, 2, Str(<<>>)),
      With(TotalStockRow, 8, Null),
      With(GoodStockRow, 9, Num(0)),
      With(GoodStockRow, 9, Num(5)),
      With(GoodStockRow, 3, Str(<<"x">>)),
      With(GoodStockRow, 4, Str(<<"1", ".", "5">>)),
      With(TotalStockRow, 10, Str(<<>>)),
      With(GoodStockRow, 14, Str(<<"-">>)),
      With(TotalStockRow, 17, Str(<<"n", "a">>)),
      With(GoodStockRow, 0, Num(2330)) }

\* the lists of at most n elements of S
ListsOf(S, n) == UNION {[1..k -> S] : k \in 0..n}

\* a parser called on a row table of at most MaxRows sample rows
InitParse ==
    /\ endpoint = "direct"
    /\ code = <<>>
    /\ max_retries = DEFAULT_MAX_RETRIES
    /\ base_delay = DEFAULT_BASE_DELAY
    /\ max_delay = DEFAULT_MAX_DELAY
    /\ FetchIdle
    /\ kind \in {"summary", "stock"}
    /\ raw_data \in ListsOf(IF kind = "summary" THEN SummaryRows ELSE StockRows, MaxRows)
    /\ ppc = "loop"
    /\ idx = 0
    /\ investors = <<>>
    /\ total_diff = 0
    /\ stocks = <<>>
    /\ tops = NoTops
    /\ src = <<>>
    /\ parseExc = "None"

NextParse == SummaryStep \/ SummaryReturn \/ StockStep \/ StockReturn

SpecParse == InitParse /\ [][NextParse]_vars

DigitChar(d) == CHOOSE c \in Digits : DigitVal(c) = d

\* the i-th row of a ranking table: its own code, and one of two pairs of net amounts
RankRow(i, k) ==
    LET c == <<"2", DigitChar(i \div 10), DigitChar(i % 10)>>
    IN  IF k = "a" THEN StockCells(c, 17, <<"1">>, <<"2">>)
        ELSE StockCells(c, 18, <<"2">>, <<"1">>)

\* parse_stock_chip_data called on a table of at most MaxRankRows rows with many equal keys
InitRank ==
    /\ endpoint = "direct"
    /\ code = <<>>
    /\ max_retries = DEFAULT_MAX_RETRIES
    /\ base_delay = DEFAULT_BASE_DELAY
    /\ max_delay = DEFAULT_MAX_DELAY
    /\ FetchIdle
    /\ kind = "stock"
    /\ \E ks \in ListsOf({"a", "b"}, MaxRankRows) :
         raw_data = [i \in 1..Len(ks) |-> RankRow(i, ks[i])]
    /\ ppc = "loop"
    /\ idx = 0
    /\ investors = <<>>
    /\ total_diff = 0
    /\ stocks = <<>>
    /\ tops = NoTops
    /\ src = <<>>
    /\ parseExc = "None"

NextRank == StockStep \/ StockReturn

SpecRank == InitRank /\ [][NextRank]_vars

(***************************************************************************)
(* The router handlers: fetch, parse, answer                               *)
(***************************************************************************)
Code9999 == <<"9", "9", "9", "9">>

\* data["data"] of the documents the upstream serves for each report
Document(k, d) ==
    IF k = "summary"
      THEN IF d = 1 THEN <<GoodSummaryRow, TotalSummaryRow>>
           ELSE <<TotalSummaryRow, With(GoodSummaryRow, 0, Num(7)), GoodSummaryRow>>
      ELSE IF d = 1 THEN <<GoodStockRow, TotalStockRow>>
           ELSE <<SubSeq(GoodStockRow, 1, 16), TotalStockRow>>

\* get_stock_detail: the first record with the code, 0 for None
GetStockDetail(ss, c) ==
    IF \E i \in 1..Len(ss) : ss[i].code = c
      THEN CHOOSE i \in 1..Len(ss) : ss[i].code = c /\ \A j \in 1..(i - 1) : ss[j].code # c
      ELSE 0

\* the except clauses of get_chip_summary and get_stock_chip_list
ListHandlerExcept(e) ==
    IF IsInstance(e.cls, "TWSEAPIError")
      THEN IF Contains(NoDataText, e.message) \/ e.status_code = 404
             THEN [status |-> 404, detail |-> <<"No data available for date: ", "date">>]
             ELSE [status |-> 500, detail |-> e.message]
    ELSE IF IsInstance(e.cls, "Exception") THEN [status |-> 500, detail |-> e.message]
    ELSE NoHttp

\* the except clauses of get_stock_chip_detail
DetailHandlerExcept(e) ==
    IF IsInstance(e.cls, "HTTPException") THEN [status |-> e.status_code, detail |-> e.message]
    ELSE IF IsInstance(e.cls, "TWSEAPIError") THEN [status |-> 500, detail |-> e.message]
    ELSE IF IsInstance(e.cls, "Exception") THEN [status |-> 500, detail |-> e.message]
    ELSE NoHttp

HandlerExcept(ep, e) == IF ep = "stock" THEN DetailHandlerExcept(e) ELSE ListHandlerExcept(e)

\* a request to one of the three endpoints; the services are called with their defaults
InitRouter ==
    /\ endpoint \in {"summary", "stocks", "stock"}
    /\ code \in IF endpoint = "stock" THEN {Code2330, Code9999} ELSE {<<>>}
    /\ max_retries = DEFAULT_MAX_RETRIES
    /\ base_delay = DEFAULT_BASE_DELAY
    /\ max_delay = DEFAULT_MAX_DELAY
    /\ FetchIdle
    /\ ParserIdle
    /\ kind = IF endpoint = "summary" THEN "summary" ELSE "stock"

\* the fetch returned: the handler calls the parser on the document
StartParse ==
    /\ endpoint # "direct" /\ pc = "returned" /\ ppc = "idle"
    /\ raw_data' = Document(kind, fetched.data)
    /\ ppc' = "loop"
    /\ UNCHANGED <<fetchVars, http, code, kind, idx, investors, total_diff, stocks, tops, src,
                   parseExc>>

\* the parser returned: the handler answers, /stock/{code} after the lookup
AnswerResult ==
    /\ endpoint # "direct" /\ ppc = "done" /\ http = NoHttp
    /\ http' = IF endpoint = "stock" /\ GetStockDetail(stocks, code) = 0
                 THEN HandlerExcept(endpoint, Raised("HTTPException", <<"Stock not found">>, 404))
                 ELSE [status |-> 200, detail |-> <<>>]
    /\ UNCHANGED <<fetchVars, parseVars, code>>

\* the fetch raised: the handler's except clauses
AnswerFetchFailure ==
    /\ endpoint # "direct" /\ pc = "raised" /\ http = NoHttp
    /\ http' = HandlerExcept(endpoint, fetched.exc)
    /\ UNCHANGED <<fetchVars, parseVars, code>>

\* the parser raised: the handler's except clauses
AnswerParseFailure ==
    /\ endpoint # "direct" /\ ppc = "raised" /\ http = NoHttp
    /\ http' = HandlerExcept(endpoint, Raised(parseExc, <<"no attribute">>, NoStatus))
    /\ UNCHANGED <<fetchVars, parseVars, code>>

NextRouter ==
    \/ Call \/ Respond \/ Wake \/ CancelAwait \/ CancelSleep
    \/ StartParse \/ SummaryStep \/ SummaryReturn \/ StockStep \/ StockReturn
    \/ AnswerResult \/ AnswerFetchFailure \/ AnswerParseFailure

SpecRouter == InitRouter /\ [][NextRouter]_vars

(***************************************************************************)
(* Properties of _fetch_json                                               *)
(***************************************************************************)
\* the attempt answered by r fails
Fails(r) == r.transport # "ok" \/ r.status \notin 200..299 \/ r.body = "invalid_json"
            \/ (r.body = "object" /\ r.stat # StatOK)

\* the attempt answered by r fails the stat validation
FailsValidation(r) == r.transport = "ok" /\ r.status \in 200..299 /\ r.body = "object"
                      /\ r.stat # StatOK

\* the error _fetch_json reports for a failed attempt answered by r
ErrorOf(r) ==
    IF r.transport = "timeout"
      THEN [cls |-> "TWSEAPIError", message |-> <<"Request timeout: ", "url">>, status_code |-> NoStatus]
    ELSE IF r.transport = "connect_error"
      THEN [cls |-> "TWSEAPIError", message |-> <<"Request error: ", "connection", "refused">>,
            status_code |-> NoStatus]
    ELSE IF r.status \notin 200..299
      THEN [cls |-> "TWSEAPIError", message |-> <<"HTTP error: ", ToString(r.status)>>,
            status_code |-> r.status]
    ELSE IF r.body = "invalid_json"
      THEN [cls |-> "TWSEAPIError", message |-> <<"Unknown error: ", "expecting", "value">>,
            status_code |-> NoStatus]
    ELSE [cls |-> "TWSEAPIError", message |-> <<"API returned error status: ">> \o r.stat,
          status_code |-> NoStatus]

\* C1: when the attempts before the k-th fail transiently and the k-th succeeds (k = max_retries
\* included), the call returns the document of the k-th attempt after exactly k-1 sleeps, the
\* i-th of them (i = 0..k-2) lasting min(base_delay * 2^i, max_delay), and none after the success.
C1_RetryThenSuccess ==
    pc = "returned" =>
        LET k == Len(responses)
        IN  /\ k >= 1
            /\ gets = k
            /\ fetched.ok
            /\ fetched.data = responses[k].doc
            /\ Len(sleeps) = k - 1
            /\ \A i \in 0..(k - 2) :
                 sleeps[i + 1] = IF base_delay * (2 ^ i) < max_delay
                                   THEN base_delay * (2 ^ i) ELSE max_delay

\* the last of max_retries >= 3 attempts succeeds after a capped sleep
C1_Witness ==
    /\ pc = "returned"
    /\ max_retries >= 3
    /\ Len(responses) = max_retries
    /\ \A k \in 1..(max_retries - 1) : Fails(responses[k])
    /\ \E i \in 1..Len(sleeps) : sleeps[i] = max_delay /\ base_delay * (2 ^ (i - 1)) > max_delay

\* C2 as stated: a stat other than "OK" is retried, so a validation error reaches the caller only
\* as the outcome of the last of the max_retries attempts.
C2_ValidationRetried ==
    \A k \in 1..Len(responses) :
        FailsValidation(responses[k]) /\ pc = "raised" => k = max_retries

\* C2 amended: a stat other than "OK" is not retried.  On whichever attempt it occurs the call
\* raises the validation error at once: no sleep follows it and no further attempt is issued.
C2_ValidationRaisedAtOnce ==
    \A k \in 1..Len(responses) :
        FailsValidation(responses[k]) =>
            /\ k = Len(responses)
            /\ pc = "raised"
            /\ fetched.exc = ErrorOf(responses[k])
            /\ gets = k
            /\ Len(sleeps) = k - 1

\* a validation failure on the first of several allowed attempts has ended the call
C2_Witness ==
    /\ pc = "raised"
    /\ max_retries >= 2
    /\ Len(responses) = 1
    /\ FailsValidation(responses[1])
    /\ sleeps = <<>>

\* C3: when all max_retries attempts fail, the error raised is the one classified from the last
\* attempt, whatever the earlier attempts failed with.
C3_LastErrorSurfaced ==
    (pc = "raised" /\ max_retries >= 1 /\ Len(responses) = max_retries) =>
        /\ \A k \in 1..max_retries : Fails(responses[k])
        /\ ~fetched.ok
        /\ fetched.exc = ErrorOf(responses[max_retries])

\* three failed attempts, the first and the last of different kinds
C3_Witness ==
    /\ pc = "raised"
    /\ max_retries >= 3
    /\ Len(responses) = max_retries
    /\ ErrorOf(responses[1]) # ErrorOf(responses[max_retries])
    /\ responses[1].transport = "timeout"
    /\ responses[max_retries].status = 500

\* C4: at most max_retries GETs and at most max_retries - 1 sleeps; every sleep follows a failed
\* attempt that is not the last one, and a finished call has slept once less than it has tried.
C4_BoundedAttempts ==
    /\ gets <= max_retries
    /\ Len(responses) <= gets
    /\ Len(sleeps) <= Len(responses)
    /\ max_retries >= 1 => Len(sleeps) <= max_retries - 1
    /\ pc = "sleeping" =>
         /\ Len(sleeps) = Len(responses)
         /\ Fails(responses[Len(responses)])
         /\ gets < max_retries
    /\ (pc \in {"returned", "raised"} /\ max_retries >= 1) => Len(sleeps) = gets - 1

\* every allowed attempt was used and failed
C4_Witness ==
    /\ pc = "raised"
    /\ max_retries >= 3
    /\ gets = max_retries
    /\ Len(sleeps) = max_retries - 1

\* C5: once the task is cancelled while suspended the call has ended with the cancellation: no
\* error is recorded for it, nothing is returned or raised as a fetch failure, and no GET or
\* sleep is started after it.
C5_CancellationPropagates ==
    cancelAt # NoCancel =>
        /\ pc = "cancelled"
        /\ gets = cancelAt.gets
        /\ Len(sleeps) = cancelAt.sleeps
        /\ last_exception = cancelAt.last
        /\ fetched = NoFetch

\* cancelled while awaiting the response of a retry
C5_Witness ==
    /\ pc = "cancelled"
    /\ cancelAt.sleeps >= 1
    /\ cancelAt.gets = cancelAt.sleeps + 1
    /\ cancelAt.gets < max_retries

\* cancelled during a backoff sleep
C5_WitnessSleeping ==
    /\ pc = "cancelled"
    /\ cancelAt.sleeps >= 1
    /\ cancelAt.gets = cancelAt.sleeps

(***************************************************************************)
(* Properties of the parsers                                               *)
(***************************************************************************)
\* s is the text of an integer once its thousands separators are removed: optional blanks
\* around an optional sign and digits, single underscores allowed between digits
IsIntText(s) ==
    LET t == SelectSeq(s, LAMBDA ch : ch # ",")
    IN  \E a, b \in 1..Len(t) :
          /\ a <= b
          /\ \A i \in 1..(a - 1) : t[i] \in {" ", "\t", "\n"}
          /\ \A i \in (b + 1)..Len(t) : t[i] \in {" ", "\t", "\n"}
          /\ LET f == IF t[a] \in {"+", "-"} THEN a + 1 ELSE a
             IN  /\ f <= b
                 /\ t[f] \in Digits
                 /\ t[b] \in Digits
                 /\ \A i \in f..b : t[i] \in Digits \cup {"_"}
                 /\ \A i \in f..(b - 1) : ~(t[i] = "_" /\ t[i + 1] = "_")

DecodesAsInt(cell) == cell.t = "str" /\ IsIntText(cell.s)

\* an empty string, a null or a zero
Falsy(cell) == cell \in {Str(<<>>), Null, Num(0)}

Records == IF kind = "summary" THEN investors ELSE stocks

MinCells == IF kind = "summary" THEN 4 ELSE 17

\* the cells a record's numbers are read from
RequiredCells(row) ==
    IF kind = "summary" THEN {1, 2, 3}
    ELSE {4, 10, 11, 14} \cup (IF Len(row) > 17 THEN {17} ELSE {})

OptionalCells == IF kind = "summary" THEN {} ELSE {2, 3, 8, 9}

OptionalField(rec, c) ==
    CASE c = 2 -> rec.foreign_buy
      [] c = 3 -> rec.foreign_sell
      [] c = 8 -> rec.trust_buy
      [] c = 9 -> rec.trust_sell

\* every record was appended for one row already consumed, in row order
RecordsInRowOrder ==
    /\ Len(src) = Len(Records)
    /\ \A k \in 1..Len(src) : src[k] \in 1..idx
    /\ \A j, k \in 1..Len(src) : j < k => src[j] < src[k]

\* C7: parse_chip_summary raises no error, whatever the cells of the rows are.
C7_SummaryNeverFails == kind = "summary" => ppc # "raised"

\* C8 as stated: every record comes from one row with the minimum number of cells whose numeric
\* cells all decode as integers, in row order; no record has a field filled with zero instead.
C8_AllNumericCellsDecode ==
    /\ RecordsInRowOrder
    /\ \A k \in 1..Len(src) :
         LET row == raw_data[src[k]]
         IN  /\ Len(row) >= MinCells
             /\ \A c \in RequiredCells(row) \cup OptionalCells : DecodesAsInt(Cell(row, c))

\* C8 amended: every record comes from one row with the minimum number of cells whose required
\* numeric cells (1-3; for a stock 4, 10, 11, 14, and 17 when present) all decode as integers
\* and whose optional cells (2, 3, 8, 9 of a stock) each decode or are empty, the field being 0
\* then; records are in row order and any other row contributes no record.
C8_RecordsFromDecodedRows ==
    /\ RecordsInRowOrder
    /\ \A k \in 1..Len(src) :
         LET row == raw_data[src[k]]
         IN  /\ Len(row) >= MinCells
             /\ \A c \in RequiredCells(row) : DecodesAsInt(Cell(row, c))
             /\ \A c \in OptionalCells :
                  \/ DecodesAsInt(Cell(row, c))
                  \/ Falsy(Cell(row, c)) /\ OptionalField(Records[k], c) = 0

\* a finished stock parse that skipped a short row and a row with an undecodable cell and built
\* a record from a row whose optional cell 2 is empty
C8_Witness ==
    /\ kind = "stock"
    /\ ppc = "done"
    /\ Len(raw_data) >= 3
    /\ Len(src) < Len(raw_data)
    /\ \E i \in 1..Len(raw_data) : Len(raw_data[i]) < MinCells
    /\ \E i \in 1..Len(raw_data) :
         Len(raw_data[i]) >= MinCells
         /\ \E c \in RequiredCells(raw_data[i]) : ~DecodesAsInt(Cell(raw_data[i], c))
    /\ \E k \in 1..Len(src) : Cell(raw_data[src[k]], 2) = Str(<<>>) /\ stocks[k].foreign_buy = 0

Better(a, b, descending) == IF descending THEN a > b ELSE a < b

\* view is the first ten of the stable sort of stocks by key in the given direction
IsTopTen(view, key, descending) ==
    LET Before(p, q) ==
            \/ Better(key[p], key[q], descending)
            \/ key[p] = key[q] /\ p < q
    IN  /\ Len(view) <= 10
        /\ Len(view) = IF Len(stocks) < 10 THEN Len(stocks) ELSE 10
        /\ \A j \in 1..Len(view) : view[j] \in 1..Len(stocks)
        /\ \A j, k \in 1..Len(view) :
             j < k => /\ view[j] # view[k]
                      /\ ~Better(key[view[k]], key[view[j]], descending)
                      /\ Before(view[j], view[k])
        /\ \A p \in 1..Len(stocks) :
             (\A j \in 1..Len(view) : view[j] # p) => \A j \in 1..Len(view) : Before(view[j], p)

\* C9: each top_* view is the first 10 of the stable sort of stocks by its key in its
\* direction: at most 10 elements of stocks, monotone, equal keys in the order of stocks.
C9_TopViews ==
    (kind = "stock" /\ ppc = "done") =>
        LET foreign == [i \in 1..Len(stocks) |-> stocks[i].foreign_diff]
            trust == [i \in 1..Len(stocks) |-> stocks[i].trust_diff]
        IN  /\ IsTopTen(tops.top_foreign_buy, foreign, TRUE)
            /\ IsTopTen(tops.top_foreign_sell, foreign, FALSE)
            /\ IsTopTen(tops.top_trust_buy, trust, TRUE)
            /\ IsTopTen(tops.top_trust_sell, trust, FALSE)

\* more than ten stocks, with equal keys inside a descending view and across its cut
C9_Witness ==
    /\ kind = "stock"
    /\ ppc = "done"
    /\ Len(stocks) > 10
    /\ Len(tops.top_foreign_buy) = 10
    /\ stocks[tops.top_foreign_buy[1]].foreign_diff > stocks[tops.top_foreign_buy[10]].foreign_diff
    /\ stocks[tops.top_foreign_buy[9]].foreign_diff = stocks[tops.top_foreign_buy[10]].foreign_diff
    /\ \E p \in 1..Len(stocks) :
         /\ \A j \in 1..10 : tops.top_foreign_buy[j] # p
         /\ stocks[p].foreign_diff = stocks[tops.top_foreign_buy[10]].foreign_diff

\* the number written in a cell
ValueOf(cell) == ParseInt(RemoveCommas(cell.s)).v

\* C10: dealer_diff is the sum of cells 11 and 14; total_diff is cell 17 when the row has one and
\* foreign_diff + trust_diff + dealer_diff when the row has exactly 17 cells.
C10_DealerAndTotal ==
    kind = "stock" =>
        \A k \in 1..Len(stocks) :
            LET row == raw_data[src[k]]
                rec == stocks[k]
            IN  /\ rec.dealer_diff = ValueOf(Cell(row, 11)) + ValueOf(Cell(row, 14))
                /\ Len(row) > 17 => rec.total_diff = ValueOf(Cell(row, 17))
                /\ Len(row) = 17 =>
                     rec.total_diff = rec.foreign_diff + rec.trust_diff + rec.dealer_diff

\* a record of a 17-cell row and a record of an 18-cell row whose cell 17 is not the sum
C10_Witness ==
    /\ kind = "stock"
    /\ \E k \in 1..Len(stocks) : Len(raw_data[src[k]]) = 17 /\ stocks[k].dealer_diff = 2
    /\ \E k \in 1..Len(stocks) :
         /\ Len(raw_data[src[k]]) = 18
         /\ stocks[k].total_diff = 99
         /\ stocks[k].foreign_diff + stocks[k].trust_diff + stocks[k].dealer_diff # 99

(***************************************************************************)
(* Properties of the router handlers                                       *)
(***************************************************************************)
\* the error says that the upstream has no data for the date
NoDataSignature(e) == Contains(<<"no", "matching", "data">>, e.message) \/ e.status_code = 404

\* C6: at /summary, /stocks and /stock/{code} a fetch failure with the no-data signature is
\* answered 404, and any other fetch failure or unexpected failure 500 with its message.
C6_ErrorMapping ==
    (endpoint \in {"summary", "stocks", "stock"} /\ http # NoHttp) =>
        /\ (pc = "raised" /\ NoDataSignature(fetched.exc)) => http.status = 404
        /\ (pc = "raised" /\ ~NoDataSignature(fetched.exc)) =>
               http.status = 500 /\ http.detail = fetched.exc.message
        /\ ppc = "raised" => http.status = 500

\* what holds of the code: the mapping at /summary and /stocks
C6_ListEndpoints ==
    (endpoint \in {"summary", "stocks"} /\ http # NoHttp) =>
        /\ (pc = "raised" /\ NoDataSignature(fetched.exc)) => http.status = 404
        /\ (pc = "raised" /\ ~NoDataSignature(fetched.exc)) =>
               http.status = 500 /\ http.detail = fetched.exc.message
        /\ ppc = "raised" => http.status = 500

====
